---- MODULE Spec2Model ----
(***************************************************************************)
(* Model of TRM_Option_VaR:                                                *)
(*   option/black_scholes.py        - class black_scholes (pydantic model) *)
(*   value_at_risk/value_at_risk.py - Portofolio_asset, Value_at_risk      *)
(*                                                                         *)
(* Python floats are modelled as fixed-point integers: the float x is the  *)
(* integer x * Scale (rounded).  An optional value (a keyword that may be  *)
(* missing, a field that may be None) is a sequence of length 0 or 1.      *)
(***************************************************************************)
EXTENDS Integers, Sequences, FiniteSets, TLC

----------------------------------------------------------------------------
(* Fixed-point arithmetic standing for Python float arithmetic.            *)

\* resolution of the fixed-point rendering of a float: 1.0 is Scale
Scale == 10000

Abs(x) == IF x < 0 THEN -x ELSE x

\* a * b for a, b >= 0, split so that no partial product leaves 32 bits
MulAbs(a, b) ==
    LET ah == a \div Scale
        al == a % Scale
        bh == b \div Scale
        bl == b % Scale
    IN  ah * bh * Scale + ah * bl + al * bh + (al * bl + Scale \div 2) \div Scale

\* float multiplication
FMul(a, b) ==
    IF (a < 0) # (b < 0) THEN -MulAbs(Abs(a), Abs(b)) ELSE MulAbs(Abs(a), Abs(b))

\* a / b for a >= 0, b > 0
DivAbs(a, b) == (a \div b) * Scale + ((a % b) * Scale + b \div 2) \div b

\* float division, b # 0 (a zero divisor raises ZeroDivisionError at the caller)
FDiv(a, b) ==
    IF (a < 0) # (b < 0) THEN -DivAbs(Abs(a), Abs(b)) ELSE DivAbs(Abs(a), Abs(b))

\* an integer as a float
F(n) == n * Scale

\* the decimal number n / d (d a power of ten) as a float
Dec(n, d) == (n * Scale) \div d

RECURSIVE IsqrtIter(_, _)
IsqrtIter(n, g) ==
    LET h == (g + n \div g) \div 2
    IN  IF h >= g THEN g ELSE IsqrtIter(n, h)

\* math.sqrt for x >= 0 (a negative argument raises ValueError at the caller)
FSqrt(x) == IF x = 0 THEN 0 ELSE IsqrtIter(x * Scale, x * Scale)

RECURSIVE ExpSeries(_, _, _)
ExpSeries(x, term, k) ==
    IF term = 0 THEN 0
    ELSE term + ExpSeries(x, FMul(term, x) \div k, k + 1)

\* math.exp: the power series for x >= 0, its reciprocal for x < 0
FExp(x) ==
    IF x >= 0 THEN ExpSeries(x, Scale, 1)
    ELSE FDiv(Scale, ExpSeries(-x, Scale, 1))

Ln2 == Dec(69315, 100000)

RECURSIVE AtanhSeries(_, _, _)
AtanhSeries(z2, pow, k) ==
    IF pow = 0 THEN 0
    ELSE FDiv(pow, F(k)) + AtanhSeries(z2, FMul(pow, z2), k + 2)

RECURSIVE FLn(_)
\* math.log for x > 0 (x <= 0 raises ValueError at the caller)
FLn(x) ==
    IF x > 2 * Scale THEN FLn((x + 1) \div 2) + Ln2
    ELSE IF 2 * x < Scale THEN FLn(2 * x) - Ln2
    ELSE LET z == FDiv(x - Scale, x + Scale)
         IN  2 * AtanhSeries(FMul(z, z), z, 1)

\* scipy.stats.norm.cdf: the standard normal distribution function
\* (Abramowitz and Stegun 26.2.17 for x >= 0, symmetry for x < 0)
NormCdfPos(x) ==
    LET t    == FDiv(Scale, Scale + FMul(Dec(23164, 100000), x))
        pdf  == FMul(Dec(39894, 100000), FExp(-(FMul(x, x) \div 2)))
        poly == FMul(t, Dec(31938, 100000)
                  + FMul(t, -Dec(35656, 100000)
                  + FMul(t, Dec(178148, 100000)
                  + FMul(t, -Dec(182126, 100000)
                  + FMul(t, Dec(133027, 100000))))))
    IN  Scale - FMul(pdf, poly)

norm_cdf(x) == IF x >= 0 THEN NormCdfPos(x) ELSE Scale - NormCdfPos(-x)

----------------------------------------------------------------------------
(* datetime.date and datetime.strptime                                     *)

\* calendar.isleap
isleap(y) == y % 4 = 0 /\ (y % 100 # 0 \/ y % 400 = 0)

DaysInMonth(y, m) ==
    IF m = 2 THEN (IF isleap(y) THEN 29 ELSE 28)
    ELSE IF m \in {4, 6, 9, 11} THEN 30 ELSE 31

RECURSIVE DaysBeforeMonth(_, _)
DaysBeforeMonth(y, m) ==
    IF m <= 1 THEN 0 ELSE DaysBeforeMonth(y, m - 1) + DaysInMonth(y, m - 1)

\* days in the years before year y (the proleptic Gregorian calendar)
DaysBeforeYear(y) ==
    LET p == y - 1 IN p * 365 + p \div 4 - p \div 100 + p \div 400

\* a datetime.date value
Date(y, m, d) == [y |-> y, m |-> m, d |-> d]

NoDate == Date(0, 0, 0)

\* date.toordinal
toordinal(dt) == DaysBeforeYear(dt.y) + DaysBeforeMonth(dt.y, dt.m) + dt.d

\* (a - b).days
DaysBetween(a, b) == toordinal(a) - toordinal(b)

\* a >= b on dates
DateGe(a, b) == toordinal(a) >= toordinal(b)

\* a str is a sequence of one-character strings
Digits == {"0", "1", "2", "3", "4", "5", "6", "7", "8", "9"}

DigitVal(c) ==
    CASE c = "0" -> 0 [] c = "1" -> 1 [] c = "2" -> 2 [] c = "3" -> 3
      [] c = "4" -> 4 [] c = "5" -> 5 [] c = "6" -> 6 [] c = "7" -> 7
      [] c = "8" -> 8 [] c = "9" -> 9

AllDigits(s) == \A i \in 1..Len(s) : s[i] \in Digits

RECURSIVE NumVal(_)
NumVal(s) ==
    IF s = <<>> THEN 0
    ELSE 10 * NumVal(SubSeq(s, 1, Len(s) - 1)) + DigitVal(s[Len(s)])

\* the pieces of s between the occurrences of the character sep
RECURSIVE SplitOn(_, _)
SplitOn(s, sep) ==
    IF \E i \in 1..Len(s) : s[i] = sep
    THEN LET i == CHOOSE j \in 1..Len(s) :
                      s[j] = sep /\ \A k \in 1..(j - 1) : s[k] # sep
         IN  <<SubSeq(s, 1, i - 1)>> \o SplitOn(SubSeq(s, i + 1, Len(s)), sep)
    ELSE <<s>>

\* constants.cDateFormat, "%d-%m-%Y": the directives and the separator
cDateFormat == <<"d", "-", "m", "-", "Y">>

\* one directive of strptime against one piece of the string
\* (%d: 1..31 in one or two digits, %m: 1..12 in one or two digits,
\*  %Y: exactly four digits)
DirectiveMatches(dir, piece) ==
    /\ AllDigits(piece)
    /\ CASE dir = "d" -> Len(piece) \in {1, 2} /\ NumVal(piece) \in 1..31
         [] dir = "m" -> Len(piece) \in {1, 2} /\ NumVal(piece) \in 1..12
         [] dir = "Y" -> Len(piece) = 4
         [] OTHER    -> FALSE

\* datetime.strptime(date_string, fmt).date(): <<the date>>, or <<>> where
\* strptime raises ValueError (no match, or no such day in the calendar)
strptime(date_string, fmt) ==
    LET pieces == SplitOn(date_string, fmt[2])
        dirs   == <<fmt[1], fmt[3], fmt[5]>>
        Field(dir) == NumVal(pieces[CHOOSE i \in 1..3 : dirs[i] = dir])
    IN  IF /\ Len(pieces) = 3
           /\ \A i \in 1..3 : DirectiveMatches(dirs[i], pieces[i])
           /\ Field("Y") >= 1
           /\ Field("d") <= DaysInMonth(Field("Y"), Field("m"))
        THEN <<Date(Field("Y"), Field("m"), Field("d"))>>
        ELSE <<>>

----------------------------------------------------------------------------
(* black_scholes: the validated values of a contract.  Each entry of the   *)
(* pydantic `values` dict is "missing" (the key is not in the dict: the    *)
(* field failed validation), "none" (the key holds None) or "val".         *)

Missing == [st |-> "missing", v |-> 0]
NoneV == [st |-> "none", v |-> 0]
Val(x) == [st |-> "val", v |-> x]

MissingD == [st |-> "missing", v |-> NoDate]
NoneD == [st |-> "none", v |-> NoDate]
ValD(dt) == [st |-> "val", v |-> dt]

\* a date keyword given as a str, and given as a datetime.date
StrArg(chars) == [kind |-> "str", chars |-> chars, date |-> NoDate]
DateArg(dt) == [kind |-> "date", chars |-> <<>>, date |-> dt]

\* helper_str_to_date with the string handed on unparsed where strptime
\* fails, so that the date field's own parser gets it, which reads the ISO
\* form YYYY-MM-DD
helper_str_to_date_passthrough(date_string) ==
    IF date_string.kind = "str"
    THEN LET parsed == strptime(date_string.chars, cDateFormat)
             iso == strptime(date_string.chars, <<"Y", "-", "m", "-", "d">>)
         IN  IF parsed # <<>> THEN [raised |-> FALSE, ret |-> ValD(parsed[1])]
             ELSE IF iso # <<>> THEN [raised |-> FALSE, ret |-> ValD(iso[1])]
             ELSE [raised |-> TRUE, ret |-> NoneD]
    ELSE [raised |-> FALSE, ret |-> NoneD]

\* helper_str_to_date: a str is parsed or raises ValueError; for any other
\* value the function falls off its end and returns None
helper_str_to_date(date_string) ==
    IF date_string.kind = "str"
    THEN LET parsed == strptime(date_string.chars, cDateFormat)
         IN  IF parsed = <<>>
             THEN [raised |-> TRUE, ret |-> NoneD]
             ELSE [raised |-> FALSE, ret |-> ValD(parsed[1])]
    ELSE [raised |-> FALSE, ret |-> NoneD]

\* the pre root validator: raises ValueError when a date keyword is missing
\* or a date string does not parse; else replaces both dates by the
\* helper's results
validate_time_format(values) ==
    IF values.trade_date = <<>> \/ values.expiry_date = <<>>
    THEN [raised |-> TRUE, trade_date |-> NoneD, expiry_date |-> NoneD]
    ELSE LET t == helper_str_to_date(values.trade_date[1])
             e == helper_str_to_date(values.expiry_date[1])
         IN  [raised |-> t.raised \/ e.raised,
              trade_date |-> t.ret, expiry_date |-> e.ret]

\* @validator('spot_price', 'strike_price', 'forward_stock_price'):
\* TRUE where the validator returns, FALSE where it raises ValueError
validate_stock_prices(field_value) == ~(field_value < 0)

\* a float field: the default (unvalidated) when the keyword is missing,
\* else the value when it is among those the constraint and the field's
\* validator allow
FloatField(given, default, allowed) ==
    IF given = <<>> THEN default
    ELSE IF given[1] \in allowed THEN Val(given[1]) ELSE Missing

\* spot_price without the ge=0 constraint and without its validator
spot_price_unchecked(given) == FloatField(given, Val(0), Int)

\* spot_price: float = Field(default=0, ge=0), then validate_stock_prices
spot_price(given) ==
    FloatField(given, Val(0), {v \in Int : v >= 0 /\ validate_stock_prices(v)})

\* strike_price: float = Field(default=0, ge=0), then validate_stock_prices
strike_price(given) ==
    FloatField(given, Val(0), {v \in Int : v >= 0 /\ validate_stock_prices(v)})

\* trade_date: date = Field(): None is not an allowed value
trade_date(pre) == IF pre.st = "val" THEN pre ELSE MissingD

\* @validator('expiry_date'): "ok", or the exception raised; the lookup
\* values['trade_date'] raises KeyError when trade_date failed validation
validate_trade_and_expiry_date(field_value, trade) ==
    IF trade.st # "val" THEN "KeyError"
    ELSE IF ~DateGe(field_value, trade.v) THEN "ValueError"
    ELSE "ok"

\* expiry_date: date = Field(): None is not an allowed value; a date goes
\* through validate_trade_and_expiry_date (ValueError fails the field,
\* KeyError is not caught by pydantic and leaves the constructor)
expiry_date(pre, trade) ==
    IF pre.st # "val" THEN [exc |-> "none", entry |-> MissingD]
    ELSE LET r == validate_trade_and_expiry_date(pre.v, trade)
         IN  IF r = "ok" THEN [exc |-> "none", entry |-> pre]
             ELSE IF r = "KeyError" THEN [exc |-> "KeyError", entry |-> MissingD]
             ELSE [exc |-> "none", entry |-> MissingD]

\* time_to_maturity: Optional[float] = Field(default=None)
time_to_maturity(given) == FloatField(given, NoneV, Int)

\* risk_free_intrest: float = Field(default=0.005, gt=0, le=1)
risk_free_intrest(given) ==
    FloatField(given, Val(Dec(5, 1000)), {v \in Int : v > 0 /\ v <= Scale})

\* risk_free_intrest_constant: float = Field(default = None, gt=0)
risk_free_intrest_constant(given) ==
    FloatField(given, NoneV, {v \in Int : v > 0})

\* forward_stock_price: float = Field(default=None, gt=0), then
\* validate_stock_prices
forward_stock_price(given) ==
    FloatField(given, NoneV, {v \in Int : v > 0 /\ validate_stock_prices(v)})

\* asset_volatility: float = Field(default=0)
asset_volatility(given) == FloatField(given, Val(0), Int)

\* convenience_yield: float = Field(default=0)
convenience_yield(given) == FloatField(given, Val(0), Int)

\* European_option: bool = Field(default=False).  The keyword must be
\* spelled as the field is: any other keyword (european_option) is an
\* extra, which a pydantic model ignores
European_option(kwargs) ==
    IF kwargs.European_option = <<>> THEN FALSE ELSE kwargs.European_option[1]

\* round(x, 3) as the tests apply it: to the nearest thousandth, a tie to
\* the even one
round3(x) ==
    LET unit == Scale \div 1000
        q == x \div unit
        r == x % unit
    IN  IF 2 * r > unit \/ (2 * r = unit /\ q % 2 = 1) THEN (q + 1) * unit
        ELSE q * unit

\* the integer ratio n / d as a float
FRatio(n, d) ==
    IF n < 0 THEN -((-n * Scale + d \div 2) \div d)
    ELSE (n * Scale + d \div 2) \div d

\* @root_validator calculate_expiry_date; year is datetime.now().year
calculate_expiry_date(values, year) ==
    IF values.expiry_date.st # "val" \/ values.trade_date.st # "val"
    THEN [exc |-> "KeyError", warned |-> FALSE, values |-> values]
    ELSE LET calculated_time_to_maturity ==
                 FRatio(DaysBetween(values.expiry_date.v, values.trade_date.v),
                        365 + (IF isleap(year) THEN 1 ELSE 0))
         IN  IF values.time_to_maturity.st = "none"
             THEN [exc |-> "none", warned |-> FALSE,
                   values |-> [values EXCEPT !.time_to_maturity =
                                   Val(calculated_time_to_maturity)]]
             ELSE [exc |-> "none",
                   warned |-> values.time_to_maturity.v # calculated_time_to_maturity,
                   values |-> values]

\* @root_validator calculate_risk_free_intrest_constant
calculate_risk_free_intrest_constant(values) ==
    IF values.risk_free_intrest.st = "missing"
    THEN [exc |-> "ValueError", values |-> values]
    ELSE IF values.risk_free_intrest_constant.st = "missing"
    THEN [exc |-> "KeyError", values |-> values]
    ELSE IF values.risk_free_intrest_constant.st = "none"
    THEN [exc |-> "none",
          values |-> [values EXCEPT !.risk_free_intrest_constant =
                          Val(FLn(Scale + values.risk_free_intrest.v))]]
    ELSE [exc |-> "none", values |-> values]

\* @root_validator calculate_forward_stock_price
calculate_forward_stock_price(values) ==
    IF values.spot_price.st = "missing"
       \/ values.risk_free_intrest_constant.st = "missing"
    THEN [exc |-> "KeyError", values |-> values]
    ELSE IF values.risk_free_intrest_constant.st = "none"
    THEN [exc |-> "TypeError", values |-> values]
    ELSE IF values.forward_stock_price.st = "missing"
    THEN [exc |-> "KeyError", values |-> values]
    ELSE IF values.forward_stock_price.st = "none"
    THEN [exc |-> "none",
          values |-> [values EXCEPT !.forward_stock_price =
              Val(FMul(values.spot_price.v,
                       FExp(FMul(values.risk_free_intrest_constant.v,
                                 values.time_to_maturity.v))))]]
    ELSE [exc |-> "none", values |-> values]

\* the fields of the class in their order of declaration, each validated
\* against the values validated before it
ValidateFields(kwargs, pre) ==
    LET trade == trade_date(pre.trade_date)
        expiry == expiry_date(pre.expiry_date, trade)
    IN  [exc |-> expiry.exc,
         values |->
           [spot_price |-> spot_price(kwargs.spot_price),
            strike_price |-> strike_price(kwargs.strike_price),
            trade_date |-> trade,
            expiry_date |-> expiry.entry,
            time_to_maturity |-> time_to_maturity(kwargs.time_to_maturity),
            risk_free_intrest |-> risk_free_intrest(kwargs.risk_free_intrest),
            risk_free_intrest_constant |->
                risk_free_intrest_constant(kwargs.risk_free_intrest_constant),
            forward_stock_price |-> forward_stock_price(kwargs.forward_stock_price),
            asset_volatility |-> asset_volatility(kwargs.asset_volatility),
            convenience_yield |-> convenience_yield(kwargs.convenience_yield),
            European_option |-> European_option(kwargs)]]

FieldNames ==
    {"spot_price", "strike_price", "trade_date", "expiry_date", "time_to_maturity",
     "risk_free_intrest", "risk_free_intrest_constant", "forward_stock_price",
     "asset_volatility", "convenience_yield"}

\* some field failed its validation
FieldErrors(values) == \E f \in FieldNames : values[f].st = "missing"

\* a construction that ends in the exception exc
Failed(exc) == [exc |-> exc, warned |-> FALSE, values |-> <<>>]

\* the third root validator has run: KeyError leaves the constructor, any
\* error collected before makes a ValidationError
AfterForwardStockPrice(field_errors, warned, r2_exc, r3) ==
    IF r3.exc = "KeyError" THEN Failed("KeyError")
    ELSE IF field_errors \/ r2_exc # "none" \/ r3.exc # "none"
    THEN Failed("ValidationError")
    ELSE [exc |-> "none", warned |-> warned, values |-> r3.values]

\* the second root validator has run
AfterRiskFreeIntrestConstant(field_errors, warned, r2) ==
    IF r2.exc = "KeyError" THEN Failed("KeyError")
    ELSE AfterForwardStockPrice(field_errors, warned, r2.exc,
                                calculate_forward_stock_price(r2.values))

\* the first root validator has run
AfterExpiryDate(field_errors, r1) ==
    IF r1.exc # "none" THEN Failed(r1.exc)
    ELSE AfterRiskFreeIntrestConstant(field_errors, r1.warned,
             calculate_risk_free_intrest_constant(r1.values))

\* the fields have been validated
AfterFields(fields, year) ==
    IF fields.exc # "none" THEN Failed(fields.exc)
    ELSE AfterExpiryDate(FieldErrors(fields.values),
                         calculate_expiry_date(fields.values, year))

\* the pre root validator has run
AfterTimeFormat(kwargs, year, pre) ==
    IF pre.raised THEN Failed("ValidationError")
    ELSE AfterFields(ValidateFields(kwargs, pre), year)

\* black_scholes(**kwargs): pydantic runs the pre root validator, the
\* fields, then the three root validators in their order (they run even
\* after a field has failed).  ValueError and TypeError are collected into
\* one ValidationError; KeyError leaves the constructor as it is.
\* exc = "none": the contract `values` is constructed
black_scholes(kwargs, year) ==
    AfterTimeFormat(kwargs, year, validate_time_format(kwargs))

----------------------------------------------------------------------------
(* black_scholes: the pricing methods.  A method's outcome is the float it *)
(* returns (exc = "none") or the exception it raises.                      *)

Returns(x) == [exc |-> "none", v |-> x]
Raises(e) == [exc |-> e, v |-> 0]

\* the delta-one computation with 0 returned where the divisor is zero
DeltaOne_zero_for_zero_divisor(self, price, drift) ==
    IF self.strike_price.v = 0 THEN Raises("ZeroDivisionError")
    ELSE IF FDiv(price, self.strike_price.v) <= 0 THEN Raises("ValueError")
    ELSE IF self.time_to_maturity.v < 0 THEN Raises("ValueError")
    ELSE IF FMul(self.asset_volatility.v, FSqrt(self.time_to_maturity.v)) = 0
    THEN Returns(0)
    ELSE Returns(FDiv(FLn(FDiv(price, self.strike_price.v))
                        + FMul(drift, self.time_to_maturity.v),
                      FMul(self.asset_volatility.v, FSqrt(self.time_to_maturity.v))))

\* the part the two delta-one methods share:
\* (log(price / strike_price) + drift * time_to_maturity)
\*     / (asset_volatility * sqrt(time_to_maturity))
\* price / strike raises ZeroDivisionError for a zero strike, log raises
\* ValueError for an argument <= 0, sqrt for an argument < 0, and the
\* last division raises ZeroDivisionError for a zero divisor
DeltaOne(self, price, drift) ==
    IF self.strike_price.v = 0 THEN Raises("ZeroDivisionError")
    ELSE IF FDiv(price, self.strike_price.v) <= 0 THEN Raises("ValueError")
    ELSE IF self.time_to_maturity.v < 0 THEN Raises("ValueError")
    ELSE LET divisor == FMul(self.asset_volatility.v, FSqrt(self.time_to_maturity.v))
         IN  IF divisor = 0 THEN Raises("ZeroDivisionError")
             ELSE Returns(FDiv(FLn(FDiv(price, self.strike_price.v))
                                 + FMul(drift, self.time_to_maturity.v),
                               divisor))

\* __calculate_spot_delta_one__
calculate_spot_delta_one(self, price) ==
    DeltaOne(self, price,
             self.risk_free_intrest_constant.v
               + FMul(self.asset_volatility.v, self.asset_volatility.v) \div 2)

\* __calculate_forward_delta_one__: the rate constant is not used
calculate_forward_delta_one(self, price) ==
    DeltaOne(self, price,
             FMul(self.asset_volatility.v, self.asset_volatility.v) \div 2)

\* __calculate_delta_two__ (called after a delta one was computed, so
\* time_to_maturity >= 0 there)
calculate_delta_two(self, d1) ==
    d1 - FMul(self.asset_volatility.v, FSqrt(self.time_to_maturity.v))

\* exp(-risk_free_intrest_constant * time_to_maturity)
Discount(self) ==
    FExp(-FMul(self.risk_free_intrest_constant.v, self.time_to_maturity.v))

\* __calculate_call_price__
calculate_call_price(self, price, d1, d2) ==
    FMul(Discount(self),
         FMul(price, norm_cdf(d1)) - FMul(self.strike_price.v, norm_cdf(d2)))

\* __calculate_put_price__
calculate_put_price(self, price, d1, d2) ==
    FMul(Discount(self),
         FMul(self.strike_price.v, norm_cdf(-d2)) - FMul(price, norm_cdf(-d1)))

\* __calculate_put_call_parity__
calculate_put_call_parity(self, forward_price) ==
    forward_price - self.spot_price.v + FMul(self.strike_price.v, Discount(self))

\* the keys of the result, from constants (as the tests spell them)
cCallSpotOption == "Call Spot price"
cCallForwardPrice == "Call Forward price"
cPutForwardOption == "Put forward price"
cPutCallParityoption == "Put-call parity"

NoDict == [k \in {} |-> 0]

\* what a call of calculate_option_premium gives its caller: a dict
\* returned, a UserWarning object returned, or an exception raised
ReturnsDict(d) == [kind |-> "dict", exc |-> "none", dict |-> d]
ReturnsWarning == [kind |-> "UserWarning", exc |-> "none", dict |-> NoDict]
RaisesFromPremium(e) == [kind |-> "raised", exc |-> e, dict |-> NoDict]

\* calculate_option_premium
calculate_option_premium(self) ==
    IF ~self.European_option THEN ReturnsWarning
    ELSE LET s1 == calculate_spot_delta_one(self, self.spot_price.v)
             f1 == calculate_forward_delta_one(self, self.forward_stock_price.v)
             d1_spot == s1.v
             d1_forward == f1.v
             d2_spot == calculate_delta_two(self, d1_spot)
             d2_forward == calculate_delta_two(self, d1_forward)
             call_spot_price ==
                 calculate_call_price(self, self.forward_stock_price.v, d1_spot, d2_spot)
             call_forward_price ==
                 calculate_call_price(self, self.forward_stock_price.v,
                                      d1_forward, d2_forward)
             put_price ==
                 calculate_put_price(self, self.forward_stock_price.v,
                                     d1_forward, d2_forward)
             put_call_parity == calculate_put_call_parity(self, call_forward_price)
         IN  IF s1.exc # "none" THEN RaisesFromPremium(s1.exc)
             ELSE IF f1.exc # "none" THEN RaisesFromPremium(f1.exc)
             ELSE ReturnsDict(
                    (cCallSpotOption :> call_spot_price)
                    @@ (cCallForwardPrice :> call_forward_price)
                    @@ (cPutForwardOption :> put_price)
                    @@ (cPutCallParityoption :> put_call_parity))

----------------------------------------------------------------------------
(* The keyword arguments a caller may construct a contract from.           *)

S_empty == <<>>
S_23_11_2022 == <<"2", "3", "-", "1", "1", "-", "2", "0", "2", "2">>
S_23_11_2023 == <<"2", "3", "-", "1", "1", "-", "2", "0", "2", "3">>
S_10_05_2023 == <<"1", "0", "-", "0", "5", "-", "2", "0", "2", "3">>
S_10_05_2024 == <<"1", "0", "-", "0", "5", "-", "2", "0", "2", "4">>
S_2022_11_23 == <<"2", "0", "2", "2", "-", "1", "1", "-", "2", "3">>
S_31_02_2023 == <<"3", "1", "-", "0", "2", "-", "2", "0", "2", "3">>

\* <<>> is the keyword left out
TradeDateInputs ==
    {<<>>, <<StrArg(S_empty)>>, <<StrArg(S_23_11_2022)>>, <<StrArg(S_23_11_2023)>>,
     <<StrArg(S_2022_11_23)>>, <<DateArg(Date(2022, 11, 23))>>}

ExpiryDateInputs ==
    {<<>>, <<StrArg(S_empty)>>, <<StrArg(S_10_05_2023)>>, <<StrArg(S_10_05_2024)>>,
     <<StrArg(S_23_11_2022)>>, <<StrArg(S_31_02_2023)>>,
     <<DateArg(Date(2023, 5, 10))>>}

SpotPriceInputs == {<<>>, <<F(-10)>>, <<0>>, <<F(19)>>}
StrikePriceInputs == {<<F(-17)>>, <<0>>, <<F(17)>>}
TimeToMaturityInputs == {<<>>, <<Dec(5, 10)>>}
RiskFreeIntrestInputs == {<<>>, <<0>>, <<Dec(5, 1000)>>}
ForwardStockPriceInputs == {<<>>, <<0>>, <<Dec(190437, 10000)>>}
AssetVolatilityInputs == {<<0>>, <<Dec(3, 10)>>}

\* the flag spelled as the field (European_option) and as the tests spell
\* it (european_option)
EuropeanInputs ==
    {[European_option |-> <<>>, european_option |-> <<>>],
     [European_option |-> <<>>, european_option |-> <<TRUE>>],
     [European_option |-> <<TRUE>>, european_option |-> <<>>],
     [European_option |-> <<FALSE>>, european_option |-> <<>>]}

\* the calendar years the clock may show when a contract is constructed
Years == {2023, 2024}

Kwargs ==
    {[spot_price |-> sp, strike_price |-> st, trade_date |-> td, expiry_date |-> ed,
      time_to_maturity |-> tm, risk_free_intrest |-> rf,
      risk_free_intrest_constant |-> <<>>, forward_stock_price |-> fw,
      asset_volatility |-> av, convenience_yield |-> <<0>>,
      European_option |-> eu.European_option, european_option |-> eu.european_option] :
        sp \in SpotPriceInputs, st \in StrikePriceInputs, td \in TradeDateInputs,
        ed \in ExpiryDateInputs, tm \in TimeToMaturityInputs,
        rf \in RiskFreeIntrestInputs, fw \in ForwardStockPriceInputs,
        av \in AssetVolatilityInputs, eu \in EuropeanInputs}

----------------------------------------------------------------------------
(* Portofolio_asset: the market-rate table (a pandas DataFrame) and the    *)
(* root validator that normalises it.                                      *)
(* A cell of a column is a value (num) when the column's dtype is a        *)
(* datetime or float dtype, and a str (text) when the dtype is object.     *)

DigitChar(n) ==
    CASE n = 0 -> "0" [] n = 1 -> "1" [] n = 2 -> "2" [] n = 3 -> "3"
      [] n = 4 -> "4" [] n = 5 -> "5" [] n = 6 -> "6" [] n = 7 -> "7"
      [] n = 8 -> "8" [] n = 9 -> "9"

\* the decimal digits of n >= 0, at least `width` of them
RECURSIVE NumText(_, _)
NumText(n, width) ==
    IF n < 10 /\ width <= 1 THEN <<DigitChar(n)>>
    ELSE NumText(n \div 10, width - 1) \o <<DigitChar(n % 10)>>

\* a date as the text YYYY-MM-DD
DateText(dt) ==
    NumText(dt.y, 4) \o <<"-">> \o NumText(dt.m, 2) \o <<"-">> \o NumText(dt.d, 2)

\* a rate with two decimals as text with a decimal comma, without trailing
\* zeros after the first decimal: 1.25 is "1,25" and 1.5 is "1,5"
RateText(r) ==
    LET cents == (r * 100) \div Scale
        whole == NumText(cents \div 100, 1)
    IN  IF cents % 10 = 0
        THEN whole \o <<",">> \o NumText((cents % 100) \div 10, 1)
        ELSE whole \o <<",">> \o NumText(cents % 100, 2)

DateCell(dt) == [num |-> dt, text |-> <<>>]
DateTextCell(dt) == [num |-> NoDate, text |-> DateText(dt)]
RateCell(r) == [num |-> r, text |-> <<>>]
RateTextCell(r) == [num |-> 0, text |-> RateText(r)]

\* Series.str.replace(old, new) on one str
str_replace(chars, old, new) ==
    [i \in 1..Len(chars) |-> IF chars[i] = old THEN new ELSE chars[i]]

\* pd.to_numeric on one str: <<the float>>, or <<>> where it raises
\* ValueError (digits, at most one decimal point)
to_numeric(chars) ==
    LET pieces == SplitOn(chars, ".")
    IN  IF /\ Len(pieces) \in {1, 2}
           /\ \A i \in 1..Len(pieces) : AllDigits(pieces[i])
           /\ \E i \in 1..Len(pieces) : pieces[i] # <<>>
        THEN <<F(NumVal(pieces[1]))
                + (IF Len(pieces) = 2 /\ pieces[2] # <<>>
                   THEN FRatio(NumVal(pieces[2]), 10 ^ Len(pieces[2]))
                   ELSE 0)>>
        ELSE <<>>

\* pd.to_datetime on one str (the ISO form): <<the date>>, or <<>> where
\* it raises ValueError
to_datetime(chars) == strptime(chars, <<"Y", "-", "m", "-", "d">>)

RequiredColumns == {"date", "asset", "market_rate"}

\* the filter left out: every row is kept, whatever its asset
FilterAsset_keep_all(rows, name) ==
    [i \in 1..Len(rows) |->
        [date |-> rows[i].date, market_rate |-> rows[i].market_rate]]

\* df[df["asset"] == asset_name].drop(columns="asset")
RECURSIVE FilterAsset(_, _)
FilterAsset(rows, name) ==
    IF rows = <<>> THEN <<>>
    ELSE (IF rows[1].asset = name
          THEN <<[date |-> rows[1].date, market_rate |-> rows[1].market_rate]>>
          ELSE <<>>) \o FilterAsset(Tail(rows), name)

\* df.sort_values("date", ascending=False): the orders it may give the
\* rows.  The sort is not stable, so rows of one date come in any order
SortedByDateDescending(rows) ==
    LET n == Len(rows)
        Perms == {p \in [1..n -> 1..n] : \A i, j \in 1..n : i # j => p[i] # p[j]}
    IN  {[i \in 1..n |-> rows[p[i]]] : p \in
            {q \in Perms : \A i \in 1..(n - 1) :
                toordinal(rows[q[i]].date) >= toordinal(rows[q[i + 1]].date)}}

\* df['market_rate'].apply(lambda x: len(x)).sum()
RECURSIVE SumLen(_)
SumLen(rows) ==
    IF rows = <<>> THEN 0
    ELSE Len(rows[1].market_rate.text) + SumLen(Tail(rows))

\* @validator('risk_type') validate_supported_risk_factors: TRUE where it
\* returns; where FALSE it raises UserWarning, which pydantic does not
\* catch
validate_supported_risk_factors(field_value) == field_value \in {"FX"}

\* asset_value: float = Field(ge=0)
asset_value(given) == FloatField(given, Missing, {v \in Int : v >= 0})

AssetFailed(exc) == [exc |-> exc, rates |-> <<>>]

\* @root_validator validate_market_rates for values['asset_market_rates']
\* = df and values['asset_name'] = name: the set of its possible outcomes,
\* each the exception raised or the normalised rows (date, market_rate).
\*  - the table None: .columns raises AttributeError
\*  - a required column missing: ValueError
\*  - dates that are not datetimes go through pd.to_datetime
\*  - rates that are not floats: "," is replaced by "." and the mean length
\*    of the strings is taken, a division by len(...) that is 0 / 0 for no
\*    row: ZeroDivisionError for a Python int, and for a numpy number nan,
\*    for which nan != abs(nan) leads to raise UserWarning(f"{set(nan)}"),
\*    a TypeError, as would any mean that differs from its absolute value.
\*    Then pd.to_numeric
validate_market_rates(df, name) ==
    IF df = <<>> THEN {AssetFailed("AttributeError")}
    ELSE IF ~(RequiredColumns \subseteq df[1].columns) THEN {AssetFailed("ValueError")}
    ELSE
      LET mask_asset == FilterAsset(df[1].rows, name)
          dates_ok == \/ df[1].date_dtype = "datetime64[ns]"
                      \/ \A i \in 1..Len(mask_asset) :
                             to_datetime(mask_asset[i].date.text) # <<>>
          with_dates ==
              [i \in 1..Len(mask_asset) |->
                  [date |-> IF df[1].date_dtype = "datetime64[ns]"
                            THEN mask_asset[i].date.num
                            ELSE to_datetime(mask_asset[i].date.text)[1],
                   market_rate |-> mask_asset[i].market_rate]]
          Replaced(row) == str_replace(row.market_rate.text, ",", ".")
          rates_ok == \/ df[1].rate_dtype = "float64"
                      \/ \A i \in 1..Len(mask_asset) :
                             to_numeric(Replaced(mask_asset[i])) # <<>>
          avg_float_lenght == FRatio(SumLen(mask_asset), Len(mask_asset))
          Numeric(rows) ==
              [i \in 1..Len(rows) |->
                  [date |-> rows[i].date,
                   market_rate |-> IF df[1].rate_dtype = "float64"
                                   THEN rows[i].market_rate.num
                                   ELSE to_numeric(Replaced(rows[i]))[1]]]
      IN  IF ~dates_ok THEN {AssetFailed("ValueError")}
          ELSE IF df[1].rate_dtype # "float64" /\ Len(mask_asset) = 0
          THEN {AssetFailed("ZeroDivisionError"), AssetFailed("TypeError")}
          ELSE IF /\ df[1].rate_dtype # "float64"
                  /\ avg_float_lenght # Abs(avg_float_lenght)
          THEN {AssetFailed("TypeError")}
          ELSE IF ~rates_ok THEN {AssetFailed("ValueError")}
          ELSE {[exc |-> "none", rates |-> Numeric(sorted)] :
                    sorted \in SortedByDateDescending(with_dates)}

\* Portofolio_asset(**kwargs): the set of possible outcomes.  The fields
\* are validated in their order (the risk_type validator's UserWarning
\* leaves the constructor at once), then the root validator runs;
\* ValueError and TypeError are collected into one ValidationError.
\* exc = "none": the asset `values` is constructed
Portofolio_asset(kw) ==
    IF ~validate_supported_risk_factors(kw.risk_type)
    THEN {[exc |-> "UserWarning", values |-> <<>>]}
    ELSE {IF r.exc \in {"AttributeError", "ZeroDivisionError"}
          THEN [exc |-> r.exc, values |-> <<>>]
          ELSE IF r.exc # "none" \/ asset_value(kw.asset_value).st = "missing"
          THEN [exc |-> "ValidationError", values |-> <<>>]
          ELSE [exc |-> "none",
                values |-> <<[asset_name |-> kw.asset_name,
                              risk_type |-> kw.risk_type,
                              asset_value |-> asset_value(kw.asset_value).v,
                              asset_market_rates |-> r.rates,
                              profit_loss_vector |-> <<>>]>>] :
             r \in validate_market_rates(kw.asset_market_rates, kw.asset_name)}

----------------------------------------------------------------------------
(* Value_at_risk: the profit and loss vector of an asset and the value at  *)
(* risk of a portofolio.  A constructed asset is the record of its fields; *)
(* asset_market_rates are its rows (date, market_rate), profit_loss_vector *)
(* is <<>> for None and <<the rows (date, profit_loss)>> once assigned.    *)

\* (rates / rates.shift(periods=-time_horizon)).dropna() for
\* time_horizon >= 0 and rates > 0: row i over row i + time_horizon; the
\* last time_horizon rows have no partner, are NaN and are dropped
asset_shift_vector(rates, time_horizon) ==
    [i \in 1..(IF Len(rates) > time_horizon THEN Len(rates) - time_horizon ELSE 0) |->
        [date |-> rates[i].date,
         ratio |-> FDiv(rates[i].market_rate, rates[i + time_horizon].market_rate)]]

\* no check of the vector at all
empty_not_checked(vector) == "none"

\* `if asset_shift_vector.empty(): raise UserWarning(...)`, "none" where
\* the statement passes.  DataFrame.empty is a property, a bool, and the
\* code calls it: calling a bool raises TypeError, whatever the vector
empty_called(vector) == "TypeError"

\* asset_value * vector.apply(lambda x: exp(log(x)*sqrt(time_horizon))-1)
profit_loss(value, vector, time_horizon) ==
    [i \in 1..Len(vector) |->
        [date |-> vector[i].date,
         profit_loss |->
             FMul(value,
                  FExp(FMul(FLn(vector[i].ratio), FSqrt(F(time_horizon)))) - Scale)]]

\* the statements after the shift vector is computed
ProfitLossFrom(asset, vector, time_horizon) ==
    IF empty_called(vector) # "none"
    THEN [exc |-> empty_called(vector), asset |-> asset]
    ELSE [exc |-> "none",
          asset |-> [asset EXCEPT !.profit_loss_vector =
                         <<profit_loss(asset.asset_value, vector, time_horizon)>>]]

\* the method with the shift vector stored back as the asset's rates
calculate_profit_loss_vector_in_place(asset, time_horizon) ==
    [exc |-> "none",
     asset |-> [asset EXCEPT
        !.asset_market_rates =
            [i \in 1..Len(asset_shift_vector(@, time_horizon)) |->
                [date |-> asset_shift_vector(@, time_horizon)[i].date,
                 market_rate |-> asset_shift_vector(@, time_horizon)[i].ratio]],
        !.profit_loss_vector =
            <<profit_loss(asset.asset_value,
                          asset_shift_vector(asset.asset_market_rates, time_horizon),
                          time_horizon)>>]]

\* __calculate_profit_loss_vector__: the exception raised ("none" if none)
\* and the asset as the call leaves it
calculate_profit_loss_vector(asset, time_horizon) ==
    IF asset.risk_type = "FX"
    THEN ProfitLossFrom(asset,
                        asset_shift_vector(asset.asset_market_rates, time_horizon),
                        time_horizon)
    ELSE [exc |-> "none", asset |-> asset]

RECURSIVE ProfitLossVectors(_, _)
RECURSIVE ProfitLossAfter(_, _, _)
\* [self.__calculate_profit_loss_vector__(asset=asset, ...) for asset in
\* assets]: the first exception ends the loop, with the assets before it
\* already assigned their vectors
ProfitLossVectors(assets, time_horizon) ==
    IF assets = <<>> THEN [exc |-> "none", assets |-> <<>>]
    ELSE ProfitLossAfter(calculate_profit_loss_vector(assets[1], time_horizon),
                         Tail(assets), time_horizon)

PrependAsset(asset, done) == [exc |-> done.exc, assets |-> <<asset>> \o done.assets]

ProfitLossAfter(first, rest, time_horizon) ==
    IF first.exc # "none" THEN [exc |-> first.exc, assets |-> <<first.asset>> \o rest]
    ELSE PrependAsset(first.asset, ProfitLossVectors(rest, time_horizon))

\* pd.concat([asset.profit_loss_vector for asset in assets]): all the rows
RECURSIVE concat(_)
concat(assets) ==
    IF assets = <<>> THEN <<>>
    ELSE assets[1].profit_loss_vector[1] \o concat(Tail(assets))

\* the sum of the rows of one date
RECURSIVE SumOfDate(_, _)
SumOfDate(rows, date) ==
    IF rows = <<>> THEN 0
    ELSE (IF rows[1].date = date THEN rows[1].profit_loss ELSE 0)
             + SumOfDate(Tail(rows), date)

\* the sequence s with x put before its first element greater than x
RECURSIVE InsertAscending(_, _)
InsertAscending(x, s) ==
    IF s = <<>> THEN <<x>>
    ELSE IF x <= s[1] THEN <<x>> \o s
    ELSE <<s[1]>> \o InsertAscending(x, Tail(s))

\* .groupby('date').sum().sort_values(ascending=True): the sums of the
\* dates, ascending
RECURSIVE SortedSums(_, _)
SortedSums(rows, dates) ==
    IF dates = {} THEN <<>>
    ELSE InsertAscending(SumOfDate(rows, CHOOSE d \in dates : TRUE),
                         SortedSums(rows, dates \ {CHOOSE d \in dates : TRUE}))

total_profit_loss(rows) ==
    SortedSums(rows, {rows[i].date : i \in 1..Len(rows)})

\* 0.4 * total_profit_loss[1] + 0.6 * total_profit_loss[2]: the second and
\* the third of the sums, IndexError where there are fewer than three
WeightedLoss(total) ==
    IF Len(total) < 3 THEN Raises("IndexError")
    ELSE Returns(FMul(Dec(4, 10), total[2]) + FMul(Dec(6, 10), total[3]))

\* the statements after the list comprehension; pd.concat of no vector
\* raises ValueError
ValueAtRiskFrom(done) ==
    IF done.exc # "none" THEN [exc |-> done.exc, v |-> 0, assets |-> done.assets]
    ELSE IF done.assets = <<>> THEN [exc |-> "ValueError", v |-> 0, assets |-> <<>>]
    ELSE [exc |-> WeightedLoss(total_profit_loss(concat(done.assets))).exc,
          v |-> WeightedLoss(total_profit_loss(concat(done.assets))).v,
          assets |-> done.assets]

\* __calculate_value_at_risk__: the exception raised or the float
\* returned, and the assets as the call leaves them
calculate_value_at_risk_of(assets, time_horizon) ==
    ValueAtRiskFrom(ProfitLossVectors(assets, time_horizon))

\* f"{portofolio_name} VaR"
VaRKey(portofolio_name) == portofolio_name \o <<" ", "V", "a", "R">>

RECURSIVE calculate_value_at_risk(_, _)
RECURSIVE ValueAtRiskAfter(_, _, _, _)
\* calculate_value_at_risk: the dict comprehension over the items of
\* self.portofolio in their order.  exc = "none": the dict is returned;
\* else the exception leaves the method and no dict is returned.
\* portofolio is self.portofolio as the call leaves it
calculate_value_at_risk(portofolio, time_horizon) ==
    IF portofolio = <<>> THEN [exc |-> "none", dict |-> NoDict, portofolio |-> <<>>]
    ELSE ValueAtRiskAfter(portofolio[1].name,
                          calculate_value_at_risk_of(portofolio[1].assets, time_horizon),
                          Tail(portofolio), time_horizon)

PrependItem(name, first, done) ==
    [exc |-> done.exc,
     dict |-> IF done.exc = "none" THEN (VaRKey(name) :> first.v) @@ done.dict
              ELSE NoDict,
     portofolio |-> <<[name |-> name, assets |-> first.assets]>> \o done.portofolio]

ValueAtRiskAfter(name, first, rest, time_horizon) ==
    IF first.exc # "none"
    THEN [exc |-> first.exc, dict |-> NoDict,
          portofolio |-> <<[name |-> name, assets |-> first.assets]>> \o rest]
    ELSE PrependItem(name, first, calculate_value_at_risk(rest, time_horizon))

\* the exceptions pydantic does not collect into a ValidationError
Escaping == {"UserWarning", "AttributeError", "ZeroDivisionError"}

\* the outcomes of constructing the assets of one list, in their order
RECURSIVE AssetOutcomes(_)
AssetOutcomes(asset_kwargs_list) ==
    IF asset_kwargs_list = <<>> THEN {<<>>}
    ELSE {<<first>> \o rest : first \in Portofolio_asset(asset_kwargs_list[1]),
                              rest \in AssetOutcomes(Tail(asset_kwargs_list))}

\* the outcomes of constructing the assets of every item of the dict, all
\* the assets in one sequence, in the order pydantic validates them
RECURSIVE PortofolioOutcomes(_)
PortofolioOutcomes(items) ==
    IF items = <<>> THEN {<<>>}
    ELSE {first \o rest : first \in AssetOutcomes(items[1].assets),
                          rest \in PortofolioOutcomes(Tail(items))}

\* the exception of the construction: the first one that pydantic does not
\* collect, else ValidationError if any asset failed, else "none"
PortofolioExc(outcomes) ==
    IF \E i \in 1..Len(outcomes) : outcomes[i].exc \in Escaping
    THEN outcomes[CHOOSE i \in 1..Len(outcomes) :
                      /\ outcomes[i].exc \in Escaping
                      /\ \A j \in 1..(i - 1) : outcomes[j].exc \notin Escaping].exc
    ELSE IF \E i \in 1..Len(outcomes) : outcomes[i].exc # "none"
    THEN "ValidationError"
    ELSE "none"

\* the validated dict: the items with their assets taken, in order, from
\* the constructed ones
RECURSIVE ValidatedPortofolio(_, _)
ValidatedPortofolio(items, outcomes) ==
    IF items = <<>> THEN <<>>
    ELSE <<[name |-> items[1].name,
            assets |-> [j \in 1..Len(items[1].assets) |-> outcomes[j].values[1]]]>>
         \o ValidatedPortofolio(Tail(items),
                                SubSeq(outcomes, Len(items[1].assets) + 1, Len(outcomes)))

\* Value_at_risk(portofolio=items), portofolio: Dict[str,
\* List[Portofolio_asset]] given as the tests give it, each asset as the
\* dict of its keywords: the set of possible outcomes
Value_at_risk(items) ==
    {[exc |-> PortofolioExc(outcomes),
      portofolio |-> IF PortofolioExc(outcomes) = "none"
                     THEN ValidatedPortofolio(items, outcomes) ELSE <<>>] :
        outcomes \in PortofolioOutcomes(items)}

----------------------------------------------------------------------------
(* The keyword arguments a caller may construct an asset from.             *)

\* the most rows a raw market-rate table has
MaxRows == 3

\* sequences over S of length at most n
SeqUpTo(S, n) == UNION {[1..k -> S] : k \in 0..n}

TableDates == {Date(2023, 1, 2), Date(2023, 1, 3)}
TableRates == {Dec(125, 100), Dec(15, 10)}
TableAssets == {"ccy-1", "ccy-2"}

\* the rows of a table, as values
TypedRows ==
    SeqUpTo([date : TableDates, asset : TableAssets, market_rate : TableRates],
            MaxRows)

\* the columns and dtypes of a table: every column typed, the dates as
\* text, the rates as text with a decimal comma, and no asset column
TableShapes ==
    {[columns |-> RequiredColumns, date_dtype |-> "datetime64[ns]", rate_dtype |-> "float64"],
     [columns |-> RequiredColumns, date_dtype |-> "object", rate_dtype |-> "float64"],
     [columns |-> RequiredColumns, date_dtype |-> "datetime64[ns]", rate_dtype |-> "object"],
     [columns |-> {"date", "market_rate"}, date_dtype |-> "datetime64[ns]",
      rate_dtype |-> "float64"]}

\* the table of that shape with the rows t
DataFrame(shape, t) ==
    [columns |-> shape.columns, date_dtype |-> shape.date_dtype,
     rate_dtype |-> shape.rate_dtype,
     rows |-> [i \in 1..Len(t) |->
                 [date |-> IF shape.date_dtype = "object" THEN DateTextCell(t[i].date)
                           ELSE DateCell(t[i].date),
                  asset |-> t[i].asset,
                  market_rate |-> IF shape.rate_dtype = "object"
                                  THEN RateTextCell(t[i].market_rate)
                                  ELSE RateCell(t[i].market_rate)]]]

Tables == {DataFrame(shape, t) : shape \in TableShapes, t \in TypedRows}

AssetKwargs ==
    [asset_name : {"ccy-1", "ccy-3"},
     risk_type : {"FX", "IR"},
     asset_value : {<<F(-1)>>, <<0>>, <<F(2)>>},
     asset_market_rates : {<<>>} \cup {<<t>> : t \in Tables}]

----------------------------------------------------------------------------
(* The portofolios a caller may compute the value at risk of.              *)

\* the market-rate table of the tests: the rows of three assets, five days
\* of ccy-1, four of ccy-2 and one of ccy-3, dates as datetimes and rates
\* as floats
test_data ==
    DataFrame([columns |-> RequiredColumns, date_dtype |-> "datetime64[ns]",
               rate_dtype |-> "float64"],
      <<[date |-> Date(2023, 1, 2), asset |-> "ccy-1", market_rate |-> Dec(125, 100)],
        [date |-> Date(2023, 1, 3), asset |-> "ccy-1", market_rate |-> Dec(15, 10)],
        [date |-> Date(2023, 1, 4), asset |-> "ccy-1", market_rate |-> Dec(12, 10)],
        [date |-> Date(2023, 1, 5), asset |-> "ccy-1", market_rate |-> Dec(16, 10)],
        [date |-> Date(2023, 1, 6), asset |-> "ccy-1", market_rate |-> Dec(11, 10)],
        [date |-> Date(2023, 1, 3), asset |-> "ccy-2", market_rate |-> Dec(8, 10)],
        [date |-> Date(2023, 1, 4), asset |-> "ccy-2", market_rate |-> Dec(9, 10)],
        [date |-> Date(2023, 1, 5), asset |-> "ccy-2", market_rate |-> Dec(7, 10)],
        [date |-> Date(2023, 1, 6), asset |-> "ccy-2", market_rate |-> Dec(1, 1)],
        [date |-> Date(2023, 1, 6), asset |-> "ccy-3", market_rate |-> Dec(2, 1)]>>)

\* the keywords of one asset, as the tests write them
TestAsset(asset_name, risk_type, value) ==
    [asset_name |-> asset_name, risk_type |-> risk_type, asset_value |-> <<value>>,
     asset_market_rates |-> <<test_data>>]

TestAssets ==
    {TestAsset(n, "FX", v) : n \in {"ccy-1", "ccy-2", "ccy-3"}, v \in {0, F(2), F(4)}}
        \cup {TestAsset("ccy-1", "IR", F(2)), TestAsset("ccy-2", "FX", F(-1))}

\* the names of the portofolios
Name1 == <<"S", "P", "O", "T", " ", "1">>
Name2 == <<"S", "P", "O", "T", " ", "2">>

\* the lists of assets the portofolios of a dict of two are taken from
SharedLists ==
    {<<TestAsset("ccy-1", "FX", F(2)), TestAsset("ccy-2", "FX", F(2))>>,
     <<TestAsset("ccy-1", "FX", F(4)), TestAsset("ccy-2", "FX", F(4))>>,
     <<TestAsset("ccy-2", "FX", F(2))>>,
     <<TestAsset("ccy-1", "FX", F(2)), TestAsset("ccy-3", "FX", F(2))>>}

\* the dicts: one portofolio of at most two assets, or two portofolios, in
\* either order of insertion
Portofolios ==
    {<<[name |-> Name1, assets |-> l]>> : l \in SeqUpTo(TestAssets, 2)}
        \cup {<<[name |-> n[1], assets |-> l1], [name |-> n[2], assets |-> l2]>> :
                 n \in {<<Name1, Name2>>, <<Name2, Name1>>},
                 l1 \in SharedLists, l2 \in SharedLists}

\* the time horizons of the calls
Horizons == {1, 2, 5}

\* the most calls of calculate_value_at_risk on one object
MaxCalls == 3

----------------------------------------------------------------------------
(* The life of one contract: the keyword arguments and the clock are       *)
(* given, the constructor runs once, and the pricing method may be called  *)
(* on the constructed (immutable) object.                                  *)

VARIABLES
    now_year,   \* datetime.now().year
    kwargs,     \* the keyword arguments of the constructor call
    pc,         \* "new", "constructed" or "failed"
    contract,   \* <<the black_scholes object>>, <<>> before and after a failure
    ctor_exc,   \* the exception the constructor raised, "none" if none
    warned,     \* the constructor emitted the time_to_maturity UserWarning
    premium,    \* <<the outcome of the last calculate_option_premium()>>
    delta,      \* <<the outcome of the last call of a delta-one method>>
    asset_kwargs, \* the keyword arguments of the Portofolio_asset call
    asset_pc,   \* "new", "constructed" or "failed"
    asset,      \* <<the Portofolio_asset object>>
    asset_exc,  \* the exception its constructor raised, "none" if none
    var_kwargs, \* the portofolio keyword of the Value_at_risk call
    var_pc,     \* "new", "constructed" or "failed"
    value_at_risk, \* <<the portofolio of the Value_at_risk object>>
    var_exc,    \* the exception its constructor raised, "none" if none
    as_constructed, \* the portofolio as the constructor left it
    horizons,   \* the time_horizon of each calculate_value_at_risk so far
    var_result, \* <<the outcome of the last calculate_value_at_risk>>
    first_result \* per time_horizon, <<the outcome of the first call with it>>

contract_vars == <<now_year, kwargs, pc, contract, ctor_exc, warned, premium, delta>>
asset_vars == <<asset_kwargs, asset_pc, asset, asset_exc>>
portofolio_vars ==
    <<var_kwargs, var_pc, value_at_risk, var_exc, as_constructed, horizons,
      var_result, first_result>>
vars == <<contract_vars, asset_vars, portofolio_vars>>

\* the test fixture default_scholes_class
DefaultKwargs ==
    [spot_price |-> <<F(19)>>, strike_price |-> <<F(17)>>,
     trade_date |-> <<StrArg(S_23_11_2022)>>, expiry_date |-> <<StrArg(S_10_05_2023)>>,
     time_to_maturity |-> <<>>, risk_free_intrest |-> <<Dec(5, 1000)>>,
     risk_free_intrest_constant |-> <<>>, forward_stock_price |-> <<>>,
     asset_volatility |-> <<Dec(3, 10)>>, convenience_yield |-> <<0>>,
     European_option |-> <<>>, european_option |-> <<TRUE>>]

DefaultAssetKwargs ==
    [asset_name |-> "ccy-1", risk_type |-> "FX", asset_value |-> <<0>>,
     asset_market_rates |-> <<>>]

\* no contract is under construction
ContractIdle ==
    /\ now_year = 2023
    /\ kwargs = DefaultKwargs
    /\ pc = "idle"
    /\ contract = <<>>
    /\ ctor_exc = "none"
    /\ warned = FALSE
    /\ premium = <<>>
    /\ delta = <<>>

\* no asset is under construction
AssetIdle ==
    /\ asset_kwargs = DefaultAssetKwargs
    /\ asset_pc = "idle"
    /\ asset = <<>>
    /\ asset_exc = "none"

\* no call of calculate_value_at_risk has been made
NotCalculated ==
    /\ horizons = <<>>
    /\ var_result = <<>>
    /\ first_result = [h \in Horizons |-> <<>>]

\* no Value_at_risk object is under construction
PortofolioIdle ==
    /\ var_kwargs = <<>>
    /\ var_pc = "idle"
    /\ value_at_risk = <<>>
    /\ var_exc = "none"
    /\ as_constructed = <<>>
    /\ NotCalculated

InitOption ==
    /\ now_year \in Years
    /\ kwargs \in Kwargs
    /\ pc = "new"
    /\ contract = <<>>
    /\ ctor_exc = "none"
    /\ warned = FALSE
    /\ premium = <<>>
    /\ delta = <<>>
    /\ AssetIdle
    /\ PortofolioIdle

InitRisk ==
    /\ ContractIdle
    /\ asset_kwargs \in AssetKwargs
    /\ asset_pc = "new"
    /\ asset = <<>>
    /\ asset_exc = "none"
    /\ PortofolioIdle

InitVaR ==
    /\ ContractIdle
    /\ AssetIdle
    /\ var_kwargs \in Portofolios
    /\ var_pc = "new"
    /\ value_at_risk = <<>>
    /\ var_exc = "none"
    /\ as_constructed = <<>>
    /\ NotCalculated

\* black_scholes(**kwargs)
Construct ==
    /\ pc = "new"
    /\ \E r \in {black_scholes(kwargs, now_year)} :
           /\ pc' = IF r.exc = "none" THEN "constructed" ELSE "failed"
           /\ contract' = IF r.exc = "none" THEN <<r.values>> ELSE <<>>
           /\ ctor_exc' = r.exc
           /\ warned' = r.warned
    /\ UNCHANGED <<now_year, kwargs, premium, delta, asset_vars, portofolio_vars>>

\* contract.calculate_option_premium()
CalculateOptionPremium ==
    /\ pc = "constructed"
    /\ premium' = <<calculate_option_premium(contract[1])>>
    /\ UNCHANGED <<now_year, kwargs, pc, contract, ctor_exc, warned, delta,
                   asset_vars, portofolio_vars>>

\* contract.__calculate_spot_delta_one__(contract.spot_price)
CalculateSpotDeltaOne ==
    /\ pc = "constructed"
    /\ \E d \in {calculate_spot_delta_one(contract[1], contract[1].spot_price.v)} :
           delta' = <<[price |-> contract[1].spot_price.v, exc |-> d.exc, v |-> d.v]>>
    /\ UNCHANGED <<now_year, kwargs, pc, contract, ctor_exc, warned, premium,
                   asset_vars, portofolio_vars>>

\* contract.__calculate_forward_delta_one__(contract.forward_stock_price)
CalculateForwardDeltaOne ==
    /\ pc = "constructed"
    /\ \E d \in {calculate_forward_delta_one(contract[1],
                                             contract[1].forward_stock_price.v)} :
           delta' = <<[price |-> contract[1].forward_stock_price.v,
                       exc |-> d.exc, v |-> d.v]>>
    /\ UNCHANGED <<now_year, kwargs, pc, contract, ctor_exc, warned, premium,
                   asset_vars, portofolio_vars>>

\* Portofolio_asset(**asset_kwargs)
ConstructAsset ==
    /\ asset_pc = "new"
    /\ \E r \in Portofolio_asset(asset_kwargs) :
           /\ asset_pc' = IF r.exc = "none" THEN "constructed" ELSE "failed"
           /\ asset' = r.values
           /\ asset_exc' = r.exc
    /\ UNCHANGED <<asset_kwargs, contract_vars, portofolio_vars>>

\* Value_at_risk(portofolio=var_kwargs)
ConstructValueAtRisk ==
    /\ var_pc = "new"
    /\ \E r \in Value_at_risk(var_kwargs) :
           /\ var_pc' = IF r.exc = "none" THEN "constructed" ELSE "failed"
           /\ value_at_risk' = IF r.exc = "none" THEN <<r.portofolio>> ELSE <<>>
           /\ as_constructed' = IF r.exc = "none" THEN <<r.portofolio>> ELSE <<>>
           /\ var_exc' = r.exc
    /\ UNCHANGED <<var_kwargs, horizons, var_result, first_result,
                   contract_vars, asset_vars>>

\* the object's calculate_value_at_risk(time_horizon=h), the assets of the
\* object left as the call leaves them
CalculateValueAtRisk ==
    /\ var_pc = "constructed"
    /\ Len(horizons) < MaxCalls
    /\ \E h \in Horizons :
         \E r \in {calculate_value_at_risk(value_at_risk[1], h)} :
           /\ horizons' = Append(horizons, h)
           /\ var_result' = <<[exc |-> r.exc, dict |-> r.dict]>>
           /\ first_result' =
                  IF first_result[h] = <<>>
                  THEN [first_result EXCEPT ![h] = <<[exc |-> r.exc, dict |-> r.dict]>>]
                  ELSE first_result
           /\ value_at_risk' = <<r.portofolio>>
    /\ UNCHANGED <<var_kwargs, var_pc, var_exc, as_constructed, contract_vars, asset_vars>>

NextOption ==
    \/ Construct
    \/ CalculateOptionPremium
    \/ CalculateSpotDeltaOne
    \/ CalculateForwardDeltaOne

NextRisk == ConstructAsset

NextVaR == ConstructValueAtRisk \/ CalculateValueAtRisk

SpecOption == InitOption /\ [][NextOption]_vars

SpecRisk == InitRisk /\ [][NextRisk]_vars

SpecVaR == InitVaR /\ [][NextVaR]_vars

----------------------------------------------------------------------------
(* Properties of the contract (checked under SpecOption) and of the asset  *)
(* (checked under SpecRisk).                                               *)

\* the constructor has run
CtorRan == pc \in {"constructed", "failed"}

\* the four keys of the result
BundleKeys == {cCallSpotOption, cCallForwardPrice, cPutForwardOption, cPutCallParityoption}

\* C1: calling calculate_option_premium on a contract that is not European
\* always raises an error; it never returns a value to the caller
C1_NonEuropeanPricingRaises ==
    (premium # <<>> /\ ~contract[1].European_option) => premium[1].kind = "raised"

\* C2: for the contract the test fixture constructs (spot 19, strike 17,
\* volatility 0.3, expiry after trade date, european_option=True) the
\* pricing returns a dict with exactly the four named keys, no warning and
\* no error
C2_FixturePricingReturnsBundle ==
    (kwargs = DefaultKwargs /\ premium # <<>>)
        => (premium[1].kind = "dict" /\ DOMAIN premium[1].dict = BundleKeys)

\* a date as the string DD-MM-YYYY
DateAsString(dt) ==
    NumText(dt.d, 2) \o <<"-">> \o NumText(dt.m, 2) \o <<"-">> \o NumText(dt.y, 4)

GivenAsDateValue(arg) == arg # <<>> /\ arg[1].kind = "date"

\* the keyword arguments with each date value replaced by its string
WithDateStrings(kw) ==
    [kw EXCEPT
       !.trade_date = IF GivenAsDateValue(@) THEN <<StrArg(DateAsString(@[1].date))>> ELSE @,
       !.expiry_date = IF GivenAsDateValue(@) THEN <<StrArg(DateAsString(@[1].date))>> ELSE @]

\* C3: trade_date and expiry_date given as date values are accepted like
\* the equivalent DD-MM-YYYY strings: where the construction from the
\* strings succeeds, the construction from the date values succeeds and
\* stores the same two dates
C3_DateValuesAccepted ==
    (/\ CtorRan
     /\ GivenAsDateValue(kwargs.trade_date)
     /\ GivenAsDateValue(kwargs.expiry_date)
     /\ black_scholes(WithDateStrings(kwargs), now_year).exc = "none")
        => (/\ pc = "constructed"
            /\ contract[1].trade_date =
                   black_scholes(WithDateStrings(kwargs), now_year).values.trade_date
            /\ contract[1].expiry_date =
                   black_scholes(WithDateStrings(kwargs), now_year).values.expiry_date)

\* the string has the shape of the date format: one or two digits, "-",
\* one or two digits, "-", four digits
LooksLikeDate(chars) ==
    LET pieces == SplitOn(chars, "-")
    IN  /\ Len(pieces) = 3
        /\ \A i \in 1..3 : AllDigits(pieces[i])
        /\ Len(pieces[1]) \in {1, 2}
        /\ Len(pieces[2]) \in {1, 2}
        /\ Len(pieces[3]) = 4

\* the date keyword is missing, or a string that does not match the format
BadDateKeyword(arg) ==
    arg = <<>> \/ (arg[1].kind = "str" /\ ~LooksLikeDate(arg[1].chars))

\* C4: construction fails, and produces no contract, whenever trade_date or
\* expiry_date is absent or is a string that does not match the date format
\* (the empty string included)
C4_BadDatesFail ==
    (CtorRan /\ (BadDateKeyword(kwargs.trade_date) \/ BadDateKeyword(kwargs.expiry_date)))
        => (pc = "failed" /\ contract = <<>> /\ ctor_exc # "none")

\* C4's case: a construction that fails for the trade date "2022-11-23"
\* alone (it succeeds with "23-11-2022" in its place)
C4_Witness ==
    /\ pc = "failed"
    /\ kwargs.trade_date = <<StrArg(S_2022_11_23)>>
    /\ black_scholes([kwargs EXCEPT !.trade_date = <<StrArg(S_23_11_2022)>>],
                     now_year).exc = "none"

GivenAsDateString(arg) ==
    arg # <<>> /\ arg[1].kind = "str" /\ strptime(arg[1].chars, cDateFormat) # <<>>

\* C5: constructing a contract whose expiry_date is earlier than or equal
\* to its trade_date always fails
C5_ExpiryNotAfterTradeFails ==
    (/\ CtorRan
     /\ GivenAsDateString(kwargs.trade_date)
     /\ GivenAsDateString(kwargs.expiry_date)
     /\ toordinal(strptime(kwargs.expiry_date[1].chars, cDateFormat)[1])
          <= toordinal(strptime(kwargs.trade_date[1].chars, cDateFormat)[1]))
        => pc = "failed"

GivenNegative(arg) == arg # <<>> /\ arg[1] < 0

\* C6: constructing a contract with a negative spot_price or a negative
\* strike_price always fails, so every constructed contract has
\* spot_price >= 0 and strike_price >= 0
C6_NegativePricesFail ==
    /\ (CtorRan /\ (GivenNegative(kwargs.spot_price) \/ GivenNegative(kwargs.strike_price)))
           => pc = "failed"
    /\ pc = "constructed"
           => (contract[1].spot_price.v >= 0 /\ contract[1].strike_price.v >= 0)

\* C6's case: a construction that fails for its negative spot price alone
\* (it succeeds with the spot price 19 in its place)
C6_Witness ==
    /\ pc = "failed"
    /\ GivenNegative(kwargs.spot_price)
    /\ black_scholes([kwargs EXCEPT !.spot_price = <<F(19)>>], now_year).exc = "none"

\* C7: constructing a contract with strike_price 0 and all other fields
\* valid (spot 19, expiry after trade, rate 0.005, volatility 0.3) fails
C7_ZeroStrikeFails ==
    (CtorRan /\ kwargs = [DefaultKwargs EXCEPT !.strike_price = <<0>>]) => pc = "failed"

\* C8: the derived time_to_maturity rounds to 0.460 for trade 2022-11-23,
\* expiry 2023-05-10, and to 0.463 for trade 2023-11-23, expiry 2024-05-10,
\* in whatever calendar year the contract is constructed
C8_TimeToMaturityRounds ==
    (pc = "constructed" /\ kwargs.time_to_maturity = <<>>)
        => (/\ (/\ contract[1].trade_date.v = Date(2022, 11, 23)
                /\ contract[1].expiry_date.v = Date(2023, 5, 10))
                   => round3(contract[1].time_to_maturity.v) = Dec(460, 1000)
            /\ (/\ contract[1].trade_date.v = Date(2023, 11, 23)
                /\ contract[1].expiry_date.v = Date(2024, 5, 10))
                   => round3(contract[1].time_to_maturity.v) = Dec(463, 1000))

\* C9: every constructed contract has forward_stock_price > 0, supplied or
\* derived, also when spot_price is 0 and no forward price is supplied
C9_ForwardPricePositive ==
    pc = "constructed" => contract[1].forward_stock_price.v > 0

\* the raw table has no row of the asset
NoRowOf(df, name) == \A i \in 1..Len(df.rows) : df.rows[i].asset # name

\* C10: every constructed asset has a non-empty asset_market_rates:
\* construction fails when the raw table has no row whose asset equals
\* asset_name
C10_RateSeriesNonEmpty ==
    /\ asset_pc = "constructed" => asset[1].asset_market_rates # <<>>
    /\ (/\ asset_pc \in {"constructed", "failed"}
        /\ asset_kwargs.asset_market_rates # <<>>
        /\ NoRowOf(asset_kwargs.asset_market_rates[1], asset_kwargs.asset_name))
           => asset_pc = "failed"

\* the date and the rate a cell of the raw table stands for, whether the
\* cell holds the value or its text
RawDate(cell) ==
    IF cell.text = <<>> THEN cell.num
    ELSE CHOOSE d \in TableDates : DateText(d) = cell.text

RawRate(cell) ==
    IF cell.text = <<>> THEN cell.num
    ELSE CHOOSE r \in TableRates : RateText(r) = cell.text

\* how many rows of the raw table df belong to the asset name and stand
\* for the date d and the rate r
RawRowsOf(df, name, d, r) ==
    Cardinality({i \in 1..Len(df.rows) :
                    /\ df.rows[i].asset = name
                    /\ RawDate(df.rows[i].date) = d
                    /\ RawRate(df.rows[i].market_rate) = r})

\* C11: the asset_market_rates of a constructed asset hold exactly the rows
\* of the raw table whose asset equals asset_name (none of another asset,
\* none lost, each as often as the raw table has it), ordered by date
\* descending
C11_RateSeriesFilteredAndSorted ==
    asset_pc = "constructed" =>
        /\ \A d \in TableDates, r \in TableRates :
               Cardinality({i \in 1..Len(asset[1].asset_market_rates) :
                               asset[1].asset_market_rates[i]
                                   = [date |-> d, market_rate |-> r]})
                 = RawRowsOf(asset_kwargs.asset_market_rates[1],
                             asset_kwargs.asset_name, d, r)
        /\ Len(asset[1].asset_market_rates)
             = Cardinality({i \in 1..Len(asset_kwargs.asset_market_rates[1].rows) :
                               asset_kwargs.asset_market_rates[1].rows[i].asset
                                   = asset_kwargs.asset_name})
        /\ \A i \in 1..(Len(asset[1].asset_market_rates) - 1) :
               toordinal(asset[1].asset_market_rates[i].date)
                 >= toordinal(asset[1].asset_market_rates[i + 1].date)

\* C11's case: a raw table of three rows, the first of the asset and of the
\* earlier date, one of another asset, constructed into two rows with the
\* later date first
C11_Witness ==
    /\ asset_pc = "constructed"
    /\ Len(asset_kwargs.asset_market_rates[1].rows) = 3
    /\ asset_kwargs.asset_market_rates[1].rows[1].asset = asset_kwargs.asset_name
    /\ RawDate(asset_kwargs.asset_market_rates[1].rows[1].date) = Date(2023, 1, 2)
    /\ \E i \in 2..3 :
           asset_kwargs.asset_market_rates[1].rows[i].asset # asset_kwargs.asset_name
    /\ Len(asset[1].asset_market_rates) = 2
    /\ asset[1].asset_market_rates[1].date = Date(2023, 1, 3)
    /\ asset[1].asset_market_rates[2].date = Date(2023, 1, 2)

----------------------------------------------------------------------------
(* Properties of the value at risk (checked under SpecVaR).                *)

\* calculate_value_at_risk has been called
Calculated == var_result # <<>>

\* the time_horizon of the last call
LastHorizon == horizons[Len(horizons)]

\* the assets of a portofolio dict
AssetsOf(portofolio) ==
    UNION {{portofolio[i].assets[j] : j \in 1..Len(portofolio[i].assets)} :
              i \in 1..Len(portofolio)}

\* every portofolio has an asset, and every asset is an FX asset with at
\* least `more` observations more than the time horizon h
HistoriesExceed(portofolio, h, more) ==
    /\ \A i \in 1..Len(portofolio) : portofolio[i].assets # <<>>
    /\ \A a \in AssetsOf(portofolio) :
           a.risk_type = "FX" /\ Len(a.asset_market_rates) >= h + more

\* x: the per-date sums of the assets' profit/loss values, ascending
LossesOf(assets, h) ==
    total_profit_loss(concat(
        [j \in 1..Len(assets) |->
            [assets[j] EXCEPT !.profit_loss_vector =
                <<profit_loss(assets[j].asset_value,
                              asset_shift_vector(assets[j].asset_market_rates, h),
                              h)>>]]))

\* C12: for a portofolio of FX assets whose history is longer than the
\* horizon, calculate_value_at_risk returns 0.4 * x[1] + 0.6 * x[2] for it,
\* x the per-date sums of the assets' profit/loss values sorted ascending
\* and counted from 0
C12_ValueAtRiskIsWeightedLoss ==
    (Calculated /\ HistoriesExceed(as_constructed[1], LastHorizon, 1))
        => /\ var_result[1].exc = "none"
           /\ \A i \in 1..Len(as_constructed[1]) :
                  /\ VaRKey(as_constructed[1][i].name) \in DOMAIN var_result[1].dict
                  /\ Len(LossesOf(as_constructed[1][i].assets, LastHorizon)) >= 3
                  /\ var_result[1].dict[VaRKey(as_constructed[1][i].name)]
                       = FMul(Dec(4, 10),
                              LossesOf(as_constructed[1][i].assets, LastHorizon)[2])
                         + FMul(Dec(6, 10),
                                LossesOf(as_constructed[1][i].assets, LastHorizon)[3])

\* the value at risk of the i-th portofolio computed alone
Alone(i, h) == calculate_value_at_risk(<<as_constructed[1][i]>>, h)

\* C13: calculate_value_at_risk over two named portofolios returns a
\* mapping of exactly one entry per portofolio, under the portofolio's
\* name, equal to the value computed for that portofolio alone, whatever
\* the other portofolio, the order of the two, and also when both list the
\* same assets
C13_OneResultPerPortofolio ==
    (/\ Calculated
     /\ Len(as_constructed[1]) = 2
     /\ HistoriesExceed(as_constructed[1], LastHorizon, 3))
        => /\ var_result[1].exc = "none"
           /\ DOMAIN var_result[1].dict
                = {VaRKey(as_constructed[1][i].name) : i \in 1..2}
           /\ \A i \in 1..2 :
                  /\ Alone(i, LastHorizon).exc = "none"
                  /\ var_result[1].dict[VaRKey(as_constructed[1][i].name)]
                       = Alone(i, LastHorizon).dict[VaRKey(as_constructed[1][i].name)]

\* the portofolio with every asset_value multiplied by k
Scaled(portofolio, k) ==
    [i \in 1..Len(portofolio) |->
        [name |-> portofolio[i].name,
         assets |-> [j \in 1..Len(portofolio[i].assets) |->
                        [portofolio[i].assets[j] EXCEPT !.asset_value = k * @]]]]

\* C14: with the rates and the horizon fixed, every asset value multiplied
\* by k multiplies the value at risk by k: doubled values double it, and
\* values of zero give exactly 0
C14_ValueAtRiskScales ==
    (Calculated /\ HistoriesExceed(as_constructed[1], LastHorizon, 3))
        => /\ var_result[1].exc = "none"
           /\ \A k \in {0, 2} :
                /\ calculate_value_at_risk(Scaled(as_constructed[1], k),
                                           LastHorizon).exc = "none"
                /\ \A i \in 1..Len(as_constructed[1]) :
                     calculate_value_at_risk(Scaled(as_constructed[1], k), LastHorizon)
                             .dict[VaRKey(as_constructed[1][i].name)]
                       = k * var_result[1].dict[VaRKey(as_constructed[1][i].name)]
           /\ (\A a \in AssetsOf(as_constructed[1]) : a.asset_value = 0)
                => \A key \in DOMAIN var_result[1].dict : var_result[1].dict[key] = 0

\* C15: when the horizon is at least the number of observations of some
\* asset of the portofolio, calculate_value_at_risk raises an error and
\* returns no value
C15_HorizonBeyondHistoryFails ==
    (/\ Calculated
     /\ \E a \in AssetsOf(as_constructed[1]) :
            Len(a.asset_market_rates) <= LastHorizon)
        => (var_result[1].exc # "none" /\ var_result[1].dict = NoDict)

\* C15's case: horizon 1 on a portofolio of an asset of five observations
\* and an asset of one
C15_Witness ==
    /\ Calculated
    /\ LastHorizon = 1
    /\ Len(as_constructed[1]) = 1
    /\ Len(as_constructed[1][1].assets) = 2
    /\ Len(as_constructed[1][1].assets[1].asset_market_rates) = 5
    /\ Len(as_constructed[1][1].assets[2].asset_market_rates) = 1
    /\ var_result[1].exc # "none"

\* the two assets agree in all but the profit_loss_vector
SameButProfitLoss(a, b) ==
    /\ a.asset_name = b.asset_name
    /\ a.risk_type = b.risk_type
    /\ a.asset_value = b.asset_value
    /\ a.asset_market_rates = b.asset_market_rates

----------------------------------------------------------------------------
(* Properties of the delta-one methods (checked under SpecOption).         *)

\* a delta-one method was called on a contract whose asset_volatility or
\* time_to_maturity is zero
DeltaOfZeroDivisor ==
    /\ delta # <<>>
    /\ \/ contract[1].asset_volatility.v = 0
       \/ contract[1].time_to_maturity.v = 0

\* C16 as stated: computing a delta one on a constructed contract whose
\* asset_volatility is zero or whose time_to_maturity is zero raises a
\* division-by-zero error
C16_ZeroDivisorRaisesZeroDivision ==
    DeltaOfZeroDivisor => delta[1].exc = "ZeroDivisionError"

\* C16: computing a delta one on a constructed contract whose
\* asset_volatility is zero or whose time_to_maturity is zero (and not
\* negative) raises an error and returns no number: the math domain error
\* of log (ValueError) when the price is zero and the strike_price is not,
\* a division-by-zero error otherwise
C16_ZeroDivisorRaises ==
    (DeltaOfZeroDivisor /\ contract[1].time_to_maturity.v >= 0)
        => delta[1].exc = IF delta[1].price = 0 /\ contract[1].strike_price.v # 0
                          THEN "ValueError"
                          ELSE "ZeroDivisionError"

\* C16's case: a delta one of a contract of positive price, strike and
\* volatility whose expiry_date is its trade_date
C16_Witness ==
    /\ delta # <<>>
    /\ contract[1].expiry_date.v = contract[1].trade_date.v
    /\ contract[1].time_to_maturity.v = 0
    /\ contract[1].asset_volatility.v > 0
    /\ contract[1].strike_price.v > 0
    /\ delta[1].price > 0
    /\ delta[1].exc = "ZeroDivisionError"

====
